---------------------------- MODULE Spec2Model ----------------------------
(***************************************************************************)
(* Model of etl.py: reconciliation of an origination table against an      *)
(* accounting table, enrichment with risk measures, PD bucketing, risk     *)
(* score, anomaly detection, data quality checks, KPIs, concentration      *)
(* reports and the writing of the report files.                            *)
(*                                                                         *)
(* Representation.                                                         *)
(*  - A DataFrame is a bag of rows (records).  No function of etl.py reads *)
(*    the row index or depends on the order of the rows: merge, fillna,    *)
(*    groupby, sum, count, nunique and quantile are all order-free, so the *)
(*    order of the rows is not part of the state.                          *)
(*  - A cell is NaN (missing) or Some(v).  Booleans computed by the code   *)
(*    (mismatch, anomaly, the quality flags) are never missing.            *)
(*  - Money is an integer number of currency units.  PD and LGD are        *)
(*    integers in thousandths (PD = 10 is 0.01 = 1%), so that the bin      *)
(*    edges 0, 0.01, 0.03, 0.07, 1.0 are 0, 10, 30, 70, 1000.              *)
(*  - A quantile q is the pair <<n, d>> standing for n/d; the percentile   *)
(*    is computed exactly, by linear interpolation between closest ranks,  *)
(*    which is pandas' default for Series.quantile.                        *)
(*  - The date columns FechaDesembolso and Fecha are carried by no         *)
(*    computation; they appear only as columns of the schema model.        *)
(***************************************************************************)
EXTENDS Integers, FiniteSets, Sequences, Bags, TLC

VARIABLES
    pc,            \* position in main(): the next call to make
    originacion,   \* originacion.csv as loaded
    contabilidad,  \* contabilidad.csv as loaded
    riesgo,        \* riesgo.csv as loaded
    tolerance,     \* reconcile's tolerance parameter
    quantile,      \* detect_anomalies' quantile parameter, <<n, d>> = n/d
    reconciled,    \* result of reconcile
    enriched,      \* result of merge_risk, then extended in place
    dq_report,     \* result of run_data_quality_checks
    kpis,          \* result of compute_kpis
    reports,       \* the aggregate tables save_reports builds
    absent,        \* schema model: the required columns missing from the inputs
    shape,         \* schema model: which charts the data calls for
    files          \* schema model: the files present in output/

vars == <<pc, originacion, contabilidad, riesgo, tolerance, quantile,
          reconciled, enriched, dq_report, kpis, reports, absent, shape, files>>

-----------------------------------------------------------------------------
(* Bounds *)

\* Total number of rows over the three input tables of a pipeline run.
MaxRows == 3

\* Number of rows of an enriched dataset handed directly to the later stages.
MaxEnrichedRows == 2

\* Number of required columns that may be missing from the inputs at once.
MaxAbsent == 1

-----------------------------------------------------------------------------
(* Cells and bags *)

NaN == << >>

Some(v) == <<v>>

Val(x) == x[1]

\* Series.fillna(v), cell by cell.
fillna(x, v) == IF x = NaN THEN Some(v) ELSE x

Abs(n) == IF n < 0 THEN -n ELSE n

\* Sum of the values of the integer-valued function g, whose domain is a
\* finite set: the positive values less the negative ones, each part being
\* the size of the bag that holds e as many times as |g[e]|.
SumFun(g) ==
    BagCardinality([e \in {x \in DOMAIN g : g[x] > 0} |-> g[e]])
    - BagCardinality([e \in {x \in DOMAIN g : g[x] < 0} |-> -g[e]])

\* Series.sum(): the sum of the cells of column col that are not missing.
col_sum(df, col) ==
    SumFun([e \in BagToSet(df) |->
        IF e[col] = NaN THEN 0 ELSE CopiesIn(e, df) * Val(e[col])])

\* Series.count(): the number of cells of column col that are not missing.
col_count(df, col) ==
    SumFun([e \in BagToSet(df) |-> IF e[col] = NaN THEN 0 ELSE CopiesIn(e, df)])

\* Mutant of nunique: count() in its place, which counts every row that has
\* a LoanID.
count_not_unique(df, col) ==
    SumFun([e \in BagToSet(df) |-> IF e[col] = NaN THEN 0 ELSE CopiesIn(e, df)])

\* Series.nunique(): the number of distinct values of column col, missing
\* cells left out (dropna=True is the default).
nunique(df, col) == Cardinality({e[col] : e \in BagToSet(df)} \ {NaN})

\* Series.sum() of a boolean column: the number of rows where it is True.
bool_sum(df, col) ==
    SumFun([e \in BagToSet(df) |-> IF e[col] THEN CopiesIn(e, df) ELSE 0])

\* The bag holding, for every triple <<row, n, origin>> of S, n copies of row.
BagFromTriples(S) ==
    [row \in {t[1] : t \in S} |->
        SumFun([t \in {u \in S : u[1] = row} |-> t[2]])]

RECURSIVE BagsOfSize(_, _)
\* All bags of exactly n rows drawn from the set D.
BagsOfSize(D, n) ==
    IF n = 0 THEN {EmptyBag}
    ELSE {b (+) SetToBag({d}) : b \in BagsOfSize(D, n - 1), d \in D}

BagsUpTo(D, n) == UNION {BagsOfSize(D, k) : k \in 0..n}

-----------------------------------------------------------------------------
(* 2. reconcile *)

\* pandas' merge matches a missing key with a missing key.
SameKeys(l, r) == l.LoanID = r.LoanID /\ l.ClienteID = r.ClienteID

\* The rows of originacion.merge(contabilidad, on=[LoanID, ClienteID], ...)
\* as triples <<row, number of copies, origin>>: the matched pairs,
merged_both(orig, cont) ==
    {<<[LoanID |-> p[1].LoanID, ClienteID |-> p[1].ClienteID,
        ImporteAprobado |-> p[1].ImporteAprobado,
        SaldoContable |-> p[2].SaldoContable, _merge |-> "both"],
       CopiesIn(p[1], orig) * CopiesIn(p[2], cont), p>> :
     p \in {p \in BagToSet(orig) \X BagToSet(cont) : SameKeys(p[1], p[2])}}

\* the rows of originacion without counterpart, SaldoContable missing,
merged_left_only(orig, cont) ==
    {<<[LoanID |-> l.LoanID, ClienteID |-> l.ClienteID,
        ImporteAprobado |-> l.ImporteAprobado,
        SaldoContable |-> NaN, _merge |-> "left_only"],
       CopiesIn(l, orig), <<l>>>> :
     l \in {l \in BagToSet(orig) : \A r \in BagToSet(cont) : ~SameKeys(l, r)}}

\* and the rows of contabilidad without counterpart, ImporteAprobado missing.
merged_right_only(orig, cont) ==
    {<<[LoanID |-> r.LoanID, ClienteID |-> r.ClienteID,
        ImporteAprobado |-> NaN,
        SaldoContable |-> r.SaldoContable, _merge |-> "right_only"],
       CopiesIn(r, cont), <<r>>>> :
     r \in {r \in BagToSet(cont) : \A l \in BagToSet(orig) : ~SameKeys(l, r)}}

\* Mutant of outer_merge: how="left", which drops the rows of contabilidad
\* that have no counterpart.
left_merge(orig, cont) ==
    BagFromTriples(merged_both(orig, cont) \cup merged_left_only(orig, cont))

\* Lines 76-82: how="outer", indicator=True.
outer_merge(orig, cont) ==
    BagFromTriples(merged_both(orig, cont) \cup merged_left_only(orig, cont)
                   \cup merged_right_only(orig, cont))

\* Mutant of exceeds: a comparison that is not strict.
exceeds_or_equals(abs_difference, tol) == abs_difference >= tol

\* The strict comparison of line 92.
exceeds(abs_difference, tol) == abs_difference > tol

\* Mutant of reconcile_row: SaldoContable is not filled, so that a row
\* without ledger entry keeps a missing balance and a missing difference,
\* and the comparison with a missing value is False.
reconcile_row_unfilled(m, tol) ==
    LET ImporteAprobado == fillna(m.ImporteAprobado, 0)
        known == m.SaldoContable # NaN
        difference == Val(ImporteAprobado) - Val(fillna(m.SaldoContable, 0))
    IN  [LoanID |-> m.LoanID, ClienteID |-> m.ClienteID,
         ImporteAprobado |-> ImporteAprobado,
         SaldoContable |-> m.SaldoContable,
         _merge |-> m._merge,
         difference |-> IF known THEN Some(difference) ELSE NaN,
         abs_difference |-> IF known THEN Some(Abs(difference)) ELSE NaN,
         mismatch |-> known /\ exceeds(Abs(difference), tol)]

\* Lines 85-92 on one merged row.
reconcile_row(m, tol) ==
    LET ImporteAprobado == fillna(m.ImporteAprobado, 0)
        SaldoContable == fillna(m.SaldoContable, 0)
        difference == Val(ImporteAprobado) - Val(SaldoContable)
    IN  [LoanID |-> m.LoanID, ClienteID |-> m.ClienteID,
         ImporteAprobado |-> ImporteAprobado,
         SaldoContable |-> SaldoContable,
         _merge |-> m._merge,
         difference |-> Some(difference),
         abs_difference |-> Some(Abs(difference)),
         mismatch |-> exceeds(Abs(difference), tol)]

reconcile(orig, cont, tol) ==
    BagOfAll(LAMBDA m : reconcile_row(m, tol), outer_merge(orig, cont))

-----------------------------------------------------------------------------
(* 3. merge_risk *)

RiskColumns == {"PD", "LGD", "EAD", "Provision", "CentroCosto", "RiesgoAsignado"}

\* reconciled.merge(riesgo, on="LoanID", how="left"): every row of reconciled
\* once per risk row with the same LoanID, or once with the risk columns
\* missing when there is none.
merge_risk(recon, risk) ==
    LET L == BagToSet(recon)
        R == BagToSet(risk)
        matched == {<<[c \in RiskColumns |-> r[c]] @@ l,
                      CopiesIn(l, recon) * CopiesIn(r, risk), <<l, r>>>> :
                    <<l, r>> \in {p \in L \X R : p[1].LoanID = p[2].LoanID}}
        alone == {<<[c \in RiskColumns |-> NaN] @@ l, CopiesIn(l, recon), <<l>>>> :
                  l \in {l \in L : \A r \in R : l.LoanID # r.LoanID}}
    IN  BagFromTriples(matched \cup alone)

-----------------------------------------------------------------------------
(* 4. add_pd_bucket, build_concentration_reports *)

\* bins = [0, 0.01, 0.03, 0.07, 1.0], in thousandths.
bins == <<0, 10, 30, 70, 1000>>

labels == <<"[0-1%]", "(1-3%]", "(3-7%]", "(>7%)">>

\* Whether x lies in the i-th interval of pd.cut(bins, right=True,
\* include_lowest=True): (bins[i], bins[i+1]], the first closed on the left.
in_bin(x, i) ==
    /\ \/ bins[i] < x
       \/ i = 1 /\ x = bins[1]
    /\ x <= bins[i + 1]

\* pd.cut on one value: the label of its interval, missing when it lies in none.
cut(x) ==
    IF \E i \in 1..Len(labels) : in_bin(x, i)
    THEN Some(labels[CHOOSE i \in 1..Len(labels) : in_bin(x, i)])
    ELSE NaN

add_pd_bucket(df) ==
    BagOfAll(LAMBDA e : ("PD_bucket" :> cut(Val(fillna(e.PD, 0)))) @@ e, df)

\* df.groupby([dim, "mismatch"], dropna=False).agg(num_loans=("LoanID",
\* "count"), total_abs_diff=("abs_difference", "sum")).reset_index(): one row
\* per observed (value of dim, mismatch) pair, a missing value of dim being a
\* group of its own.  (A categorical dim also lists its unobserved categories,
\* with num_loans = 0 and total_abs_diff = 0; they are left out here.)
concentration(df, dim) ==
    {LET g == [e \in {e \in BagToSet(df) : e[dim] = k[1] /\ e.mismatch = k[2]}
                  |-> CopiesIn(e, df)]
     IN  [value |-> k[1], mismatch |-> k[2],
          num_loans |-> col_count(g, "LoanID"),
          total_abs_diff |-> col_sum(g, "abs_difference")] :
     k \in {<<e[dim], e.mismatch>> : e \in BagToSet(df)}}

build_concentration_reports(df) ==
    LET e == IF \A r \in BagToSet(df) : "PD_bucket" \in DOMAIN r
             THEN df ELSE add_pd_bucket(df)
    IN  [conc_center |-> concentration(e, "CentroCosto"),
         conc_risk |-> concentration(e, "RiesgoAsignado"),
         conc_pd |-> concentration(e, "PD_bucket")]

-----------------------------------------------------------------------------
(* 5. add_risk_mismatch_score *)

add_risk_mismatch_score(df) ==
    BagOfAll(LAMBDA e :
        ("Risk_Mismatch_Score" :>
            Some(Val(fillna(e.PD, 0)) * Val(fillna(e.LGD, 0))
                 * Val(fillna(e.abs_difference, 0)))) @@ e, df)

-----------------------------------------------------------------------------
(* 6. run_data_quality_checks *)

\* A comparison with a missing cell is False.
negative(x) == x # NaN /\ Val(x) < 0

problem_cols == {"missing_PD", "missing_LGD", "missing_EAD", "negative_saldo",
                 "negative_importe_aprobado", "inconsistent_provision",
                 "missing_centro_costo"}

\* Mutant of any_issue: all(axis=1) in place of any(axis=1).
all_issues(flags) == \A c \in problem_cols : flags[c]

\* dq[problem_cols].any(axis=1) on one row of flags.
any_issue(flags) == \E c \in problem_cols : flags[c]

\* Lines 200-221 on one row.
dq_row(e) ==
    LET flags == [missing_PD |-> e.PD = NaN,
                  missing_LGD |-> e.LGD = NaN,
                  missing_EAD |-> e.EAD = NaN,
                  negative_saldo |-> negative(e.SaldoContable),
                  negative_importe_aprobado |-> negative(e.ImporteAprobado),
                  inconsistent_provision |->
                      negative(e.Provision) \/ e.Provision = NaN,
                  missing_centro_costo |-> e.CentroCosto = NaN]
    IN  [LoanID |-> e.LoanID, any_quality_issue |-> any_issue(flags)] @@ flags

\* Mutant of run_data_quality_checks: a row already flagged as an anomaly
\* counts as a quality issue.
run_data_quality_checks_with_anomaly(df) ==
    BagOfAll(LAMBDA e :
        [dq_row(e) EXCEPT !.any_quality_issue =
            @ \/ ("anomaly" \in DOMAIN e /\ e.anomaly)], df)

run_data_quality_checks(df) == BagOfAll(dq_row, df)

-----------------------------------------------------------------------------
(* 7. detect_anomalies *)

\* The k-th smallest (k = 0 is the minimum) of the cells of abs_difference
\* that are not missing, counted with multiplicity.
kth_abs_difference(df, k) ==
    LET present == [e \in {e \in BagToSet(df) : e.abs_difference # NaN}
                       |-> CopiesIn(e, df)]
        below(x) == SumFun([e \in DOMAIN present |->
                        IF Val(e.abs_difference) < x THEN present[e] ELSE 0])
        upto(x) == SumFun([e \in DOMAIN present |->
                        IF Val(e.abs_difference) <= x THEN present[e] ELSE 0])
    IN  CHOOSE x \in {Val(e.abs_difference) : e \in DOMAIN present} :
            below(x) <= k /\ k < upto(x)

\* Series.quantile(q), q = q[1]/q[2], by linear interpolation between the
\* closest ranks, as the fraction <<numerator, denominator>>: the value at
\* position q * (n - 1) of the sorted cells that are not missing.
quantile_abs_difference(df, q) ==
    LET n == col_count(df, "abs_difference")
        lo == (q[1] * (n - 1)) \div q[2]
        rest == (q[1] * (n - 1)) % q[2]
        hi == IF lo + 1 <= n - 1 THEN lo + 1 ELSE lo
        vlo == kth_abs_difference(df, lo)
        vhi == kth_abs_difference(df, hi)
    IN  <<vlo * q[2] + rest * (vhi - vlo), q[2]>>

\* Mutant of above: a comparison that is not strict.
above_or_equal(x, threshold) ==
    x # NaN /\ Val(x) * threshold[2] >= threshold[1]

\* abs_difference > threshold on one cell; False on a missing cell.
above(x, threshold) == x # NaN /\ Val(x) * threshold[2] > threshold[1]

detect_anomalies(df, q) ==
    IF col_count(df, "abs_difference") = 0
    THEN BagOfAll(LAMBDA e : ("anomaly" :> FALSE) @@ e, df)
    ELSE LET threshold == quantile_abs_difference(df, q)
         IN  BagOfAll(LAMBDA e :
                 ("anomaly" :> above(e.abs_difference, threshold)) @@ e, df)

-----------------------------------------------------------------------------
(* 8. compute_kpis *)

\* x / total_loans if total_loans else 0.0, as <<numerator, denominator>>.
ratio(x, total_loans) ==
    IF total_loans # 0 THEN <<x, total_loans>> ELSE <<0, 1>>

compute_kpis(df, dq) ==
    LET total_loans == nunique(df, "LoanID")
        mismatches == bool_sum(df, "mismatch")
        anomalies == IF \A e \in BagToSet(df) : "anomaly" \in DOMAIN e
                     THEN bool_sum(df, "anomaly") ELSE 0
        dq_issues == bool_sum(dq, "any_quality_issue")
    IN  [total_loans |-> total_loans,
         num_mismatches |-> mismatches,
         pct_mismatches |-> ratio(mismatches, total_loans),
         num_anomalies |-> anomalies,
         total_approved |-> col_sum(df, "ImporteAprobado"),
         total_ledger |-> col_sum(df, "SaldoContable"),
         total_abs_difference |-> col_sum(df, "abs_difference"),
         num_quality_issues |-> dq_issues,
         pct_quality_issues |-> ratio(dq_issues, total_loans)]

-----------------------------------------------------------------------------
(* 10. save_reports: the tables it builds *)

\* Lines 395-404: the summary by CentroCosto and mismatch.
summary_metrics(df) ==
    {LET g == [e \in {e \in BagToSet(df) :
                        e.CentroCosto = k[1] /\ e.mismatch = k[2]}
                  |-> CopiesIn(e, df)]
     IN  [CentroCosto |-> k[1], mismatch |-> k[2],
          num_loans |-> col_count(g, "LoanID"),
          total_approved |-> col_sum(g, "ImporteAprobado"),
          total_ledger |-> col_sum(g, "SaldoContable"),
          total_abs_difference |-> col_sum(g, "abs_difference")] :
     k \in {<<e.CentroCosto, e.mismatch>> : e \in BagToSet(df)}}

save_reports(df) ==
    [summary |-> summary_metrics(df)] @@ build_concentration_reports(df)

-----------------------------------------------------------------------------
(* Inputs of a pipeline run *)

\* The (LoanID, ClienteID) keys of the input rows: two clients under one
\* loan, a second loan, and a row whose LoanID cell is empty.
Keys == {<<Some(1), Some(1)>>, <<Some(1), Some(2)>>, <<Some(2), Some(1)>>,
         <<NaN, Some(1)>>}

OrigRows ==
    {[LoanID |-> k[1], ClienteID |-> k[2], ImporteAprobado |-> a] :
        k \in Keys, a \in {NaN, Some(3)}}

ContRows ==
    {[LoanID |-> k[1], ClienteID |-> k[2], SaldoContable |-> a] :
        k \in Keys, a \in {NaN, Some(1), Some(3)}}

\* A complete risk row, one with missing cells and a negative provision, and
\* one whose PD cell holds 1.5.
RiskRows ==
    {[LoanID |-> l, PD |-> Some(50), LGD |-> Some(400), EAD |-> Some(5),
      Provision |-> Some(1), CentroCosto |-> Some("A"),
      RiesgoAsignado |-> Some("Alto")] : l \in {Some(1), Some(2), NaN}}
    \cup
    {[LoanID |-> l, PD |-> NaN, LGD |-> Some(400), EAD |-> NaN,
      Provision |-> Some(-1), CentroCosto |-> NaN,
      RiesgoAsignado |-> Some("Bajo")] : l \in {Some(1), Some(2), NaN}}
    \cup
    {[LoanID |-> l, PD |-> Some(1500), LGD |-> NaN, EAD |-> Some(5),
      Provision |-> Some(1), CentroCosto |-> Some("B"),
      RiesgoAsignado |-> NaN] : l \in {Some(1), Some(2), NaN}}

\* main passes tolerance=1000.0 and quantile=0.99; reconcile takes any
\* tolerance, and the amounts above are chosen around these two: the
\* differences that occur are 0, 2, 3 and -1, -3.
Tolerances == {0, 2}

MainQuantile == <<99, 100>>

\* Nothing computed yet.
None == << >>

SchemaIdle == absent = {} /\ shape = None /\ files = {}

\* The state of main() after load_data.
Init ==
    /\ pc = "reconcile"
    /\ \E n \in {t \in (0..MaxRows) \X (0..MaxRows) \X (0..MaxRows) :
                    t[1] + t[2] + t[3] <= MaxRows} :
          /\ originacion \in BagsOfSize(OrigRows, n[1])
          /\ contabilidad \in BagsOfSize(ContRows, n[2])
          /\ riesgo \in BagsOfSize(RiskRows, n[3])
    /\ tolerance \in Tolerances
    /\ quantile = MainQuantile
    /\ reconciled = None
    /\ enriched = None
    /\ dq_report = None
    /\ kpis = None
    /\ reports = None
    /\ SchemaIdle

-----------------------------------------------------------------------------
(* 11. main, one call per step *)

Reconcile ==
    /\ pc = "reconcile"
    /\ reconciled' = reconcile(originacion, contabilidad, tolerance)
    /\ pc' = "merge_risk"
    /\ UNCHANGED <<originacion, contabilidad, riesgo, tolerance, quantile,
                   enriched, dq_report, kpis, reports, absent, shape, files>>

MergeRisk ==
    /\ pc = "merge_risk"
    /\ enriched' = merge_risk(reconciled, riesgo)
    /\ pc' = "add_pd_bucket"
    /\ UNCHANGED <<originacion, contabilidad, riesgo, tolerance, quantile,
                   reconciled, dq_report, kpis, reports, absent, shape, files>>

AddPdBucket ==
    /\ pc = "add_pd_bucket"
    /\ enriched' = add_pd_bucket(enriched)
    /\ pc' = "add_risk_mismatch_score"
    /\ UNCHANGED <<originacion, contabilidad, riesgo, tolerance, quantile,
                   reconciled, dq_report, kpis, reports, absent, shape, files>>

AddRiskMismatchScore ==
    /\ pc = "add_risk_mismatch_score"
    /\ enriched' = add_risk_mismatch_score(enriched)
    /\ pc' = "detect_anomalies"
    /\ UNCHANGED <<originacion, contabilidad, riesgo, tolerance, quantile,
                   reconciled, dq_report, kpis, reports, absent, shape, files>>

DetectAnomalies ==
    /\ pc = "detect_anomalies"
    /\ enriched' = detect_anomalies(enriched, quantile)
    /\ pc' = "run_data_quality_checks"
    /\ UNCHANGED <<originacion, contabilidad, riesgo, tolerance, quantile,
                   reconciled, dq_report, kpis, reports, absent, shape, files>>

RunDataQualityChecks ==
    /\ pc = "run_data_quality_checks"
    /\ dq_report' = run_data_quality_checks(enriched)
    /\ pc' = "compute_kpis"
    /\ UNCHANGED <<originacion, contabilidad, riesgo, tolerance, quantile,
                   reconciled, enriched, kpis, reports, absent, shape, files>>

ComputeKpis ==
    /\ pc = "compute_kpis"
    /\ kpis' = compute_kpis(enriched, dq_report)
    /\ pc' = "save_reports"
    /\ UNCHANGED <<originacion, contabilidad, riesgo, tolerance, quantile,
                   reconciled, enriched, dq_report, reports, absent, shape, files>>

SaveReports ==
    /\ pc = "save_reports"
    /\ reports' = save_reports(enriched)
    /\ pc' = "done"
    /\ UNCHANGED <<originacion, contabilidad, riesgo, tolerance, quantile,
                   reconciled, enriched, dq_report, kpis, absent, shape, files>>

Next ==
    \/ Reconcile
    \/ MergeRisk
    \/ AddPdBucket
    \/ AddRiskMismatchScore
    \/ DetectAnomalies
    \/ RunDataQualityChecks
    \/ ComputeKpis
    \/ SaveReports

Spec == Init /\ [][Next]_vars

-----------------------------------------------------------------------------
(* The later stages on an enriched dataset given directly *)

\* The risk columns of a complete risk row.
CompleteRisk ==
    [PD |-> Some(20), LGD |-> Some(400), EAD |-> Some(5), Provision |-> Some(1),
     CentroCosto |-> Some("A"), RiesgoAsignado |-> Some("Alto")]

\* The enriched row of loan 1 with the two amounts given, reconciled with
\* tolerance 2 and matched with a complete risk row.
EnrichedRow(importe, saldo) ==
    CompleteRisk @@
    reconcile_row([LoanID |-> Some(1), ClienteID |-> Some(1),
                   ImporteAprobado |-> importe, SaldoContable |-> saldo,
                   _merge |-> "both"], 2)

\* A matched loan within tolerance, with complete risk data.
BaseRow == EnrichedRow(Some(3), Some(1))

\* BaseRow with one column changed to each value of S.
Vary(col, S) == {[BaseRow EXCEPT ![col] = v] : v \in S}

\* Rows that differ from BaseRow in one respect each: the PD cell around the
\* bin edges, each quality problem alone, a loan without risk row, the
\* grouping dimensions, the LoanID, the amounts (negative, equal, far
\* apart), and a row whose difference columns are missing.
EnrichedRows ==
    Vary("PD", {NaN, Some(0), Some(10), Some(11), Some(70), Some(71), Some(1000)})
    \cup Vary("LGD", {NaN})
    \cup Vary("EAD", {NaN})
    \cup Vary("Provision", {NaN, Some(-1)})
    \cup Vary("CentroCosto", {NaN, Some("B")})
    \cup Vary("RiesgoAsignado", {NaN})
    \cup Vary("LoanID", {Some(2), NaN})
    \cup {[c \in RiskColumns |-> NaN] @@ BaseRow}
    \cup {EnrichedRow(a[1], a[2]) :
            a \in {<<Some(-1), Some(1)>>, <<Some(3), Some(-1)>>,
                   <<Some(3), Some(3)>>, <<Some(3), Some(8)>>,
                   <<Some(12), Some(3)>>}}
    \cup {[BaseRow EXCEPT !.difference = NaN, !.abs_difference = NaN]}

\* The dataset of the percentile scenario: 100 loans whose abs_difference
\* values are 10, 20, ..., 1000.
ScenarioRows ==
    SetToBag({[BaseRow EXCEPT !.LoanID = Some(i), !.difference = Some(10 * i),
                              !.abs_difference = Some(10 * i), !.mismatch = TRUE] :
              i \in 1..100})

Quantiles == {<<0, 1>>, <<1, 2>>, <<99, 100>>, <<1, 1>>}

\* The state of a run after merge_risk, for any enriched dataset.
InitEnriched ==
    /\ pc = "add_pd_bucket"
    /\ enriched \in BagsUpTo(EnrichedRows, MaxEnrichedRows) \cup {ScenarioRows}
    /\ quantile \in Quantiles
    /\ originacion = None
    /\ contabilidad = None
    /\ riesgo = None
    /\ tolerance = 2
    /\ reconciled = None
    /\ dq_report = None
    /\ kpis = None
    /\ reports = None
    /\ SchemaIdle

NextEnriched ==
    \/ AddPdBucket
    \/ AddRiskMismatchScore
    \/ DetectAnomalies
    \/ RunDataQualityChecks
    \/ ComputeKpis
    \/ SaveReports

SpecEnriched == InitEnriched /\ [][NextEnriched]_vars

\* The two middle stages in the other order: the quality checks first ...
RunDataQualityChecksFirst ==
    /\ pc = "detect_anomalies"
    /\ dq_report' = run_data_quality_checks(enriched)
    /\ pc' = "detect_anomalies_second"
    /\ UNCHANGED <<originacion, contabilidad, riesgo, tolerance, quantile,
                   reconciled, enriched, kpis, reports, absent, shape, files>>

\* ... and the anomaly detection after them.
DetectAnomaliesSecond ==
    /\ pc = "detect_anomalies_second"
    /\ enriched' = detect_anomalies(enriched, quantile)
    /\ pc' = "compute_kpis"
    /\ UNCHANGED <<originacion, contabilidad, riesgo, tolerance, quantile,
                   reconciled, dq_report, kpis, reports, absent, shape, files>>

NextOrder ==
    \/ NextEnriched
    \/ RunDataQualityChecksFirst
    \/ DetectAnomaliesSecond

SpecOrder == InitEnriched /\ [][NextOrder]_vars

-----------------------------------------------------------------------------
(* The run as a sequence of column reads and file writes *)

\* The columns the pipeline needs from each input file.
RequiredColumns ==
    {<<"originacion", c>> :
        c \in {"LoanID", "ClienteID", "ImporteAprobado", "FechaDesembolso"}}
    \cup {<<"contabilidad", c>> :
        c \in {"LoanID", "ClienteID", "SaldoContable", "Fecha"}}
    \cup {<<"riesgo", c>> :
        c \in {"LoanID", "PD", "LGD", "EAD", "Provision", "CentroCosto",
               "RiesgoAsignado"}}

\* The steps of main() in order: its calls up to compute_kpis, then the
\* writes of save_reports, each named by the file it writes.
Steps ==
    <<"load_data", "reconcile", "merge_risk", "add_pd_bucket",
      "add_risk_mismatch_score", "detect_anomalies", "run_data_quality_checks",
      "compute_kpis",
      "reconciliation_report.csv", "summary_metrics.csv",
      "data_quality_report.csv", "kpis.json", "kpis.csv",
      "concentration_by_center.csv", "concentration_by_risk_segment.csv",
      "concentration_by_pd_bucket.csv",
      "mismatch_by_center.png", "summary_mismatch_by_center.png",
      "mismatch_by_risk_segment.png", "mismatch_by_pd_bucket.png">>

StepNames == {Steps[i] : i \in 1..Len(Steps)}

\* The step after step s, "done" after the last.
following(s) ==
    LET i == CHOOSE i \in 1..Len(Steps) : Steps[i] = s
    IN  IF i < Len(Steps) THEN Steps[i + 1] ELSE "done"

\* The input columns a step looks up by name; the lookup raises (ValueError
\* from read_csv's parse_dates, KeyError elsewhere) when the column is not
\* there.  Columns derived on the way (difference, PD_bucket, ...) exist
\* whenever the step is reached.
reads(s) ==
    CASE s = "load_data" ->                                   \* lines 49-57
           {<<"originacion", "FechaDesembolso">>, <<"contabilidad", "Fecha">>}
      [] s = "reconcile" ->                                   \* lines 76-86
           {<<"originacion", "LoanID">>, <<"originacion", "ClienteID">>,
            <<"contabilidad", "LoanID">>, <<"contabilidad", "ClienteID">>,
            <<"originacion", "ImporteAprobado">>,
            <<"contabilidad", "SaldoContable">>}
      [] s = "merge_risk" -> {<<"riesgo", "LoanID">>}          \* line 104
      [] s = "add_pd_bucket" -> {<<"riesgo", "PD">>}           \* line 118
      [] s = "add_risk_mismatch_score" ->                     \* lines 182-183
           {<<"riesgo", "PD">>, <<"riesgo", "LGD">>}
      [] s = "run_data_quality_checks" ->                     \* lines 202-210
           {<<"riesgo", "PD">>, <<"riesgo", "LGD">>, <<"riesgo", "EAD">>,
            <<"riesgo", "Provision">>, <<"riesgo", "CentroCosto">>}
      [] s = "summary_metrics.csv" ->                         \* line 396
           {<<"riesgo", "CentroCosto">>}
      [] s = "concentration_by_center.csv" ->                 \* line 140
           {<<"riesgo", "CentroCosto">>}
      [] s = "concentration_by_risk_segment.csv" ->           \* line 151
           {<<"riesgo", "RiesgoAsignado">>}
      [] s = "mismatch_by_center.png" ->                      \* line 422
           {<<"riesgo", "CentroCosto">>}
      [] OTHER -> {}

\* The file a step leaves in output/, if any.  The csv and json files are
\* written unconditionally; each chart only when its table has rows.
written(s, sh) ==
    CASE s \in {"load_data", "reconcile", "merge_risk", "add_pd_bucket",
                "add_risk_mismatch_score", "detect_anomalies",
                "run_data_quality_checks", "compute_kpis"} -> {}
      [] s = "mismatch_by_center.png" ->                      \* line 427
           IF sh.mismatch_center THEN {s} ELSE {}
      [] s = "summary_mismatch_by_center.png" ->              \* line 284
           IF sh.rows THEN {s} ELSE {}
      [] s \in {"mismatch_by_risk_segment.png",               \* lines 318-320
                "mismatch_by_pd_bucket.png"} ->               \* lines 331-333
           IF sh.mismatch THEN {s} ELSE {}
      [] OTHER -> {s}

\* What the charts depend on: whether the enriched table has rows, has rows
\* with mismatch, and has rows with mismatch and a CentroCosto.
Shapes ==
    {sh \in [rows : BOOLEAN, mismatch : BOOLEAN, mismatch_center : BOOLEAN] :
        /\ sh.mismatch_center => sh.mismatch
        /\ sh.mismatch => sh.rows}

InitSchema ==
    /\ pc = "load_data"
    /\ absent \in {a \in SUBSET RequiredColumns : Cardinality(a) <= MaxAbsent}
    /\ shape \in Shapes
    /\ files = {}
    /\ originacion = None
    /\ contabilidad = None
    /\ riesgo = None
    /\ tolerance = 0
    /\ quantile = MainQuantile
    /\ reconciled = None
    /\ enriched = None
    /\ dq_report = None
    /\ kpis = None
    /\ reports = None

\* The current step finds its columns and completes.
StepCompletes ==
    /\ pc \in StepNames
    /\ reads(pc) \cap absent = {}
    /\ files' = files \cup written(pc, shape)
    /\ pc' = following(pc)
    /\ UNCHANGED <<originacion, contabilidad, riesgo, tolerance, quantile,
                   reconciled, enriched, dq_report, kpis, reports, absent, shape>>

\* The current step looks up a column that is not there: the exception
\* leaves main(), which catches nothing and removes nothing.
StepRaises ==
    /\ pc \in StepNames
    /\ reads(pc) \cap absent # {}
    /\ pc' = "failed"
    /\ UNCHANGED <<originacion, contabilidad, riesgo, tolerance, quantile,
                   reconciled, enriched, dq_report, kpis, reports, absent, shape,
                   files>>

NextSchema ==
    \/ StepCompletes
    \/ StepRaises

SpecSchema == InitSchema /\ [][NextSchema]_vars

-----------------------------------------------------------------------------
(* Properties of reconcile (specification Spec) *)

\* The number of rows of df, with multiplicity, whose key is <<loan, client>>.
RowsWithKey(df, loan, client) ==
    BagCardinality([e \in {e \in BagToSet(df) :
                              e.LoanID = loan /\ e.ClienteID = client}
                       |-> CopiesIn(e, df)])

\* The keys of the rows of df.
KeysOf(df) == {<<e.LoanID, e.ClienteID>> : e \in BagToSet(df)}

\* C1: in every row reconcile returns, mismatch is true exactly when
\* abs_difference is strictly greater than the tolerance; a row whose
\* abs_difference equals the tolerance is not a mismatch, a row whose
\* abs_difference is the tolerance plus a positive amount is one.
C1_MismatchIffAboveTolerance ==
    pc # "reconcile" =>
        \A e \in BagToSet(reconciled) :
            /\ e.abs_difference # NaN
            /\ e.mismatch <=> Val(e.abs_difference) > tolerance
            /\ Val(e.abs_difference) = tolerance => e.mismatch = FALSE
            /\ Val(e.abs_difference) >= tolerance + 1 => e.mismatch = TRUE

\* C1 witness: with a positive tolerance, reconcile has returned a row whose
\* abs_difference equals the tolerance and a row that exceeds it by one.
C1_Witness ==
    /\ pc # "reconcile"
    /\ tolerance > 0
    /\ \E e \in BagToSet(reconciled) :
           Val(e.abs_difference) = tolerance /\ ~e.mismatch
    /\ \E e \in BagToSet(reconciled) :
           Val(e.abs_difference) = tolerance + 1 /\ e.mismatch

\* C2: the outer join loses nothing.  Every LoanID of either input is the
\* LoanID of some reconciled row; a key present in both inputs yields one
\* row tagged both per pair of matching rows; a key present in one input
\* only yields one row per input row, tagged left_only or right_only.
C2_OuterJoinComplete ==
    pc # "reconcile" =>
        /\ \A l \in BagToSet(originacion) \cup BagToSet(contabilidad) :
               \E e \in BagToSet(reconciled) : e.LoanID = l.LoanID
        /\ \A k \in KeysOf(originacion) \cup KeysOf(contabilidad) :
               LET no == RowsWithKey(originacion, k[1], k[2])
                   nc == RowsWithKey(contabilidad, k[1], k[2])
                   tags == {e._merge : e \in {e \in BagToSet(reconciled) :
                                e.LoanID = k[1] /\ e.ClienteID = k[2]}}
               IN  /\ RowsWithKey(reconciled, k[1], k[2]) =
                          IF no > 0 /\ nc > 0 THEN no * nc ELSE no + nc
                   /\ tags = IF no > 0 /\ nc > 0 THEN {"both"}
                              ELSE IF no > 0 THEN {"left_only"}
                              ELSE {"right_only"}

\* C2 witness: one loan is in both inputs under different clients, so that
\* reconcile has returned a row of originacion alone and a row of
\* contabilidad alone with the same LoanID, next to a second row of
\* originacion for another loan.
C2_Witness ==
    /\ pc # "reconcile"
    /\ \E e, f, g \in BagToSet(reconciled) :
           /\ e._merge = "left_only" /\ f._merge = "right_only"
           /\ e.LoanID = f.LoanID /\ e.LoanID # NaN
           /\ g._merge = "left_only" /\ g.LoanID # e.LoanID

\* C3: every reconciled row has its two amounts, difference, abs_difference
\* and mismatch, a missing amount counting as 0.  A row of originacion alone
\* has SaldoContable = 0 and difference = ImporteAprobado, a row of
\* contabilidad alone has ImporteAprobado = 0 and difference =
\* -SaldoContable, and either is a mismatch whenever the amount it does have
\* exceeds the tolerance in absolute value.
C3_MissingSideIsZero ==
    pc # "reconcile" =>
        /\ \A e \in BagToSet(reconciled) :
               /\ e.ImporteAprobado # NaN /\ e.SaldoContable # NaN
               /\ e.difference # NaN /\ e.abs_difference # NaN
               /\ e.mismatch \in BOOLEAN
               /\ Val(e.abs_difference) = Abs(Val(e.difference))
               /\ e._merge = "left_only" =>
                      /\ e.SaldoContable = Some(0)
                      /\ e.difference = e.ImporteAprobado
                      /\ Abs(Val(e.ImporteAprobado)) > tolerance => e.mismatch
               /\ e._merge = "right_only" =>
                      /\ e.ImporteAprobado = Some(0)
                      /\ Val(e.difference) = -Val(e.SaldoContable)
                      /\ Abs(Val(e.SaldoContable)) > tolerance => e.mismatch
        /\ \A l \in BagToSet(originacion) :
               (\A r \in BagToSet(contabilidad) :
                    r.LoanID # l.LoanID \/ r.ClienteID # l.ClienteID)
               => \E e \in BagToSet(reconciled) :
                      /\ e.LoanID = l.LoanID /\ e.ClienteID = l.ClienteID
                      /\ e.ImporteAprobado =
                             IF l.ImporteAprobado = NaN THEN Some(0)
                             ELSE l.ImporteAprobado
                      /\ e.difference = e.ImporteAprobado
        /\ \A r \in BagToSet(contabilidad) :
               (\A l \in BagToSet(originacion) :
                    r.LoanID # l.LoanID \/ r.ClienteID # l.ClienteID)
               => \E e \in BagToSet(reconciled) :
                      /\ e.LoanID = r.LoanID /\ e.ClienteID = r.ClienteID
                      /\ e.SaldoContable =
                             IF r.SaldoContable = NaN THEN Some(0)
                             ELSE r.SaldoContable
                      /\ Val(e.difference) = -Val(e.SaldoContable)

\* C3 witness: reconcile has returned a row of originacion alone whose
\* approved amount exceeds the tolerance, flagged as a mismatch, and a row
\* of contabilidad alone with a balance.
C3_Witness ==
    /\ pc # "reconcile"
    /\ \E e \in BagToSet(reconciled) :
           /\ e._merge = "left_only"
           /\ Val(e.ImporteAprobado) > tolerance
           /\ e.SaldoContable = Some(0)
           /\ e.mismatch
    /\ \E e \in BagToSet(reconciled) :
           /\ e._merge = "right_only"
           /\ Val(e.SaldoContable) # 0
           /\ Val(e.difference) = -Val(e.SaldoContable)

-----------------------------------------------------------------------------
(* Properties of merge_risk and compute_kpis (specification Spec) *)

\* The number of risk rows, with multiplicity, that share the LoanID loan.
RiskRowsFor(loan) ==
    BagCardinality([r \in {r \in BagToSet(riesgo) : r.LoanID = loan}
                       |-> CopiesIn(r, riesgo)])

\* The number of rows one reconciled row becomes in the enriched table.
FanOut(loan) == IF RiskRowsFor(loan) = 0 THEN 1 ELSE RiskRowsFor(loan)

\* The number of enriched rows, with multiplicity, that extend the
\* reconciled row l.
RowsExtending(l) ==
    BagCardinality([e \in {e \in BagToSet(enriched) :
                              \A c \in DOMAIN l : e[c] = l[c]}
                       |-> CopiesIn(e, enriched)])

\* C4: merge_risk keeps every reconciled row: once, with the risk columns
\* missing, when no risk row shares its LoanID, and k times when k >= 1 risk
\* rows share it.  On that table compute_kpis counts each LoanID once in
\* total_loans (a missing LoanID is not one, and nunique leaves it out),
\* while num_mismatches counts every fanned-out row flagged mismatch.
C4_FanOutAndKpiCounts ==
    /\ pc \notin {"reconcile", "merge_risk"} =>
          /\ \A l \in BagToSet(reconciled) :
                 /\ RowsExtending(l) = CopiesIn(l, reconciled) * FanOut(l.LoanID)
                 /\ RiskRowsFor(l.LoanID) = 0 =>
                        \A e \in BagToSet(enriched) :
                            (\A c \in DOMAIN l : e[c] = l[c])
                            => \A c \in RiskColumns : e[c] = NaN
          /\ \A e \in BagToSet(enriched) :
                 \E l \in BagToSet(reconciled) : \A c \in DOMAIN l : e[c] = l[c]
    /\ pc \in {"save_reports", "done"} =>
          /\ kpis.total_loans =
                 Cardinality({l.LoanID : l \in BagToSet(reconciled)} \ {NaN})
          /\ kpis.num_mismatches =
                 SumFun([l \in BagToSet(reconciled) |->
                     IF l.mismatch
                     THEN CopiesIn(l, reconciled) * FanOut(l.LoanID) ELSE 0])

\* C4 witness: one loan with a LoanID, flagged mismatch, has two risk rows;
\* the KPIs count one loan and two mismatches.
C4_Witness ==
    /\ pc = "done"
    /\ \E l \in BagToSet(reconciled) :
           /\ l.LoanID # NaN
           /\ l.mismatch
           /\ RiskRowsFor(l.LoanID) = 2
           /\ RowsExtending(l) = 2
    /\ kpis.total_loans = 1
    /\ kpis.num_mismatches = 2

-----------------------------------------------------------------------------
(* Properties of the concentration reports and the PD buckets
   (specification Spec) *)

\* C5: for each of the three dimensions, the num_loans of the groups of the
\* concentration report add up to the number of rows of the enriched table.
C5_NumLoansSumToRowCount ==
    pc = "done" =>
        \A t \in {"conc_center", "conc_risk", "conc_pd"} :
            SumFun([g \in reports[t] |-> g.num_loans]) = BagCardinality(enriched)

\* C6: add_pd_bucket gives every row one of the four buckets, from its PD
\* with a missing PD taken as 0: [0, 0.01] the first, (0.01, 0.03] the
\* second, (0.03, 0.07] the third, and every PD above 0.07 the last.
C6_EveryPDInOneOfFourBuckets ==
    pc \notin {"reconcile", "merge_risk", "add_pd_bucket"} =>
        \A e \in BagToSet(enriched) :
            LET p == IF e.PD = NaN THEN 0 ELSE Val(e.PD)
            IN  /\ e.PD_bucket \in {Some("[0-1%]"), Some("(1-3%]"),
                                     Some("(3-7%]"), Some("(>7%)")}
                /\ (0 <= p /\ p <= 10) => e.PD_bucket = Some("[0-1%]")
                /\ (10 < p /\ p <= 30) => e.PD_bucket = Some("(1-3%]")
                /\ (30 < p /\ p <= 70) => e.PD_bucket = Some("(3-7%]")
                /\ 70 < p => e.PD_bucket = Some("(>7%)")

-----------------------------------------------------------------------------
(* Properties of detect_anomalies and run_data_quality_checks
   (specification SpecEnriched) *)

\* detect_anomalies has run (in the order of main).
Detected == pc \in {"run_data_quality_checks", "compute_kpis", "save_reports", "done"}

\* The dataset is the one of the percentile scenario.
IsScenario ==
    /\ BagCardinality(enriched) = 100
    /\ {e.abs_difference : e \in BagToSet(enriched)} = {Some(10 * i) : i \in 1..100}

\* C7: anomaly is abs_difference > threshold, the threshold being the
\* quantile-th percentile of the dataset's own abs_difference values that
\* are not missing.  The rows above the threshold are the topmost ones: at
\* most (1 - quantile) * (n - 1) of the n values, rounded up, and none of
\* them below a row that is not flagged.  A row without abs_difference is
\* never flagged; with no value at all no row is flagged.  On the values 10,
\* 20, ..., 1000 with quantile 0.99 the one row flagged is the maximum.
C7_AnomalyAbovePercentile ==
    Detected =>
        LET n == col_count(enriched, "abs_difference")
            flagged == bool_sum(enriched, "anomaly")
        IN  /\ \A e \in BagToSet(enriched) :
                   e.abs_difference = NaN => e.anomaly = FALSE
            /\ n = 0 => flagged = 0
            /\ n > 0 =>
                   LET threshold == quantile_abs_difference(enriched, quantile)
                   IN  /\ \A e \in BagToSet(enriched) :
                              e.abs_difference # NaN =>
                                  (e.anomaly <=> Val(e.abs_difference) * threshold[2]
                                                     > threshold[1])
                       /\ flagged * quantile[2]
                              <= (n - 1) * (quantile[2] - quantile[1])
                                 + (quantile[2] - 1)
                       /\ \A e, f \in BagToSet(enriched) :
                              (e.anomaly /\ f.abs_difference # NaN
                               /\ Val(f.abs_difference) >= Val(e.abs_difference))
                              => f.anomaly
            /\ (IsScenario /\ quantile = <<99, 100>>) =>
                   /\ flagged = 1
                   /\ \A e \in BagToSet(enriched) :
                          e.anomaly <=> e.abs_difference = Some(1000)

\* C7 witness: detect_anomalies has run on the scenario with quantile 0.99
\* and flagged the row whose abs_difference is 1000.
C7_Witness ==
    /\ Detected
    /\ IsScenario
    /\ quantile = <<99, 100>>
    /\ \E e \in BagToSet(enriched) : e.anomaly /\ e.abs_difference = Some(1000)

\* The seven quality conditions of an enriched row, by name.
Conditions(e) ==
    [missing_PD |-> e.PD = NaN,
     missing_LGD |-> e.LGD = NaN,
     missing_EAD |-> e.EAD = NaN,
     negative_saldo |-> e.SaldoContable # NaN /\ Val(e.SaldoContable) < 0,
     negative_importe_aprobado |->
         e.ImporteAprobado # NaN /\ Val(e.ImporteAprobado) < 0,
     inconsistent_provision |->
         e.Provision = NaN \/ Val(e.Provision) < 0,
     missing_centro_costo |-> e.CentroCosto = NaN]

-----------------------------------------------------------------------------
(* Order of the two middle stages (specification SpecOrder) *)

\* The table without the anomaly column.
WithoutAnomaly(df) ==
    BagOfAll(LAMBDA e : [c \in DOMAIN e \ {"anomaly"} |-> e[c]], df)

\* C10: the quality report and the KPIs do not depend on whether
\* detect_anomalies runs before or after run_data_quality_checks.  A report
\* computed first is the report the flagged table gives; once both have
\* run, the report is the one of the table with and without the anomaly
\* column, the flags are those of detect_anomalies on the table as it was,
\* and the KPIs are those of the flagged table and that report.
C10_MiddleStagesCommute ==
    /\ pc = "detect_anomalies_second" =>
          /\ dq_report = run_data_quality_checks(detect_anomalies(enriched, quantile))
          /\ \A e \in BagToSet(enriched) : "anomaly" \notin DOMAIN e
    /\ pc \in {"compute_kpis", "save_reports", "done"} =>
          /\ dq_report = run_data_quality_checks(enriched)
          /\ dq_report = run_data_quality_checks(WithoutAnomaly(enriched))
          /\ enriched = detect_anomalies(WithoutAnomaly(enriched), quantile)
    /\ pc \in {"save_reports", "done"} =>
          kpis = compute_kpis(detect_anomalies(WithoutAnomaly(enriched), quantile),
                              run_data_quality_checks(WithoutAnomaly(enriched)))

\* C10 witness: the quality checks have run first, on a table with a
\* quality issue, and detect_anomalies is about to flag a row.
C10_Witness ==
    /\ pc = "detect_anomalies_second"
    /\ \E d \in BagToSet(dq_report) : d.any_quality_issue
    /\ \E e \in BagToSet(detect_anomalies(enriched, quantile)) : e.anomaly

-----------------------------------------------------------------------------
(* All-or-nothing output (specification SpecSchema) *)

\* C8: when a required column is missing from an input, the run fails
\* before any file is written: output/ never holds a file in such a run.
C8_NoOutputWhenColumnAbsent ==
    absent # {} => files = {}

=============================================================================
